---- MODULE Spec2Model ----
(***************************************************************************)
(* Model of the AddExistingRepository component (the repository-path       *)
(* validation and trust-resolution workflow):                              *)
(*   src/app/src/ui/open-pull-request/open-pull-request-dialog.tsx         *)
(*   lines 298-557.                                                        *)
(*                                                                         *)
(* The React state of the component is the record `state`.  Every event    *)
(* handler runs to its first `await` in one step; every continuation after *)
(* an `await` is a step of its own.  Outstanding getRepositoryType calls   *)
(* and in-flight onTrustDirectory invocations are kept in `requests` and   *)
(* `trusts`.  Variables whose comment says "history" record what happened  *)
(* and are never read by the actions that model the code.                  *)
(*                                                                         *)
(* Spec is the whole dialog up to the moment it is closed; FormSpec is the *)
(* dialog without the trust link, with addRepository followed past its     *)
(* await.  Two more components have specifications of their own:           *)
(*   PullRequestReview.onSubmit                                            *)
(*     src/app/src/ui/notifications/pull-request-review.tsx lines 44-159   *)
(*   DiffOptions  src/unnamed/part_002 lines 26-66.                        *)
(***************************************************************************)
EXTENDS Integers, FiniteSets, Sequences, TLC

\* ---------------------------------------------------------------- bounds
\* Total number of getRepositoryType calls issued in one behaviour.
MaxRequests == 3
\* Total number of onTrustDirectory invocations in one behaviour.
MaxTrusts == 2
\* Longest raw path handed to resolvedPath on its own.
MaxPathLen == 3
\* Number of clicks DiffOptions handles in one behaviour.
MaxClicks == 8

\* ------------------------------------------------------------ value sets
\* `undefined` of the optional field repositoryUnsafePath.
Undefined == "<undefined>"
\* `null`, the file picker's result when the user cancels.
Null == "<null>"

\* The paths the user can type or pick; "" is the empty text box, "~" the
\* home-directory shorthand.
Paths == {"", "/a", "~"}
\* The paths git can report as unsafely owned (type.path).
OwnerPaths == {"/a"}

\* The characters raw paths are made of, and the raw paths of up to n of
\* them.
PathChars == {"~", "/", ".", "a"}
RawPaths(n) == UNION {[1..k -> PathChars] : k \in 0..n}

\* The characters of the paths the user can type or pick.
chars(path) ==
    CASE path = "" -> <<>>
      [] path = "/a" -> <<"/", "a">>
      [] path = "~" -> <<"~">>

\* os.homedir(), as characters.
Home == <<"/", "h">>

\* untildify(path): a leading "~" that ends the path or is followed by a
\* separator is replaced by the home directory.
untildify(path) ==
    IF /\ Len(path) >= 1
       /\ path[1] = "~"
       /\ (Len(path) = 1 \/ path[2] \in {"/", "\\"})
    THEN Home \o Tail(path)
    ELSE path

\* The segments of a path between its "/" separators.
RECURSIVE segments(_)
segments(path) ==
    IF path = <<>> THEN << <<>> >>
    ELSE LET rest == segments(Tail(path))
         IN  IF Head(path) = "/"
             THEN << <<>> >> \o rest
             ELSE << <<Head(path)>> \o Head(rest) >> \o Tail(rest)

\* Path.resolve's normalization of the segments of an absolute path: empty
\* and "." segments are dropped, ".." removes the segment before it and is
\* dropped at the root.
RECURSIVE normalizeSegments(_, _)
normalizeSegments(done, todo) ==
    IF todo = <<>> THEN done
    ELSE LET seg == Head(todo)
         IN  IF seg = <<>> \/ seg = <<".">>
             THEN normalizeSegments(done, Tail(todo))
             ELSE IF seg = <<".", ".">>
             THEN normalizeSegments(
                      IF done = <<>> THEN done
                      ELSE SubSeq(done, 1, Len(done) - 1),
                      Tail(todo))
             ELSE normalizeSegments(Append(done, seg), Tail(todo))

\* The segments joined again, each after a "/".
RECURSIVE joinSegments(_)
joinSegments(segs) ==
    IF segs = <<>> THEN <<>>
    ELSE <<"/">> \o Head(segs) \o joinSegments(Tail(segs))

\* Variant of pathResolve: the root is put in front of every path and
\* nothing is normalized.
pathResolve_Concatenates(root, path) == root \o path

\* Path.resolve(root, path) for the root "/": an absolute path stands for
\* itself, any other is taken below the root; the result is normalized.
pathResolve(root, path) ==
    LET absolute == IF path # <<>> /\ path[1] = "/" THEN path
                    ELSE root \o <<"/">> \o path
        segs == normalizeSegments(<<>>, segments(absolute))
    IN  IF segs = <<>> THEN <<"/">> ELSE joinSegments(segs)

\* resolvedPath(path).
resolvedPath(path) == pathResolve(<<"/">>, untildify(path))

\* The values getRepositoryType resolves with.
RepositoryTypes ==
    {[kind |-> "missing", path |-> Undefined],
     [kind |-> "bare", path |-> Undefined],
     [kind |-> "regular", path |-> Undefined]}
    \cup {[kind |-> "unsafe", path |-> o] : o \in OwnerPaths}

\* History values: nothing applied yet for the current path.
NoType == [kind |-> "none", path |-> Undefined]
PendingType == [kind |-> "pending", path |-> Undefined]

VARIABLES
    state,        \* this.state of the component
    mounted,      \* componentDidMount has run
    dismissed,    \* props.onDismissed has been called
    requests,     \* outstanding getRepositoryType calls
    trusts,       \* onTrustDirectory invocations (in flight and finished)
    nextId,       \* number of getRepositoryType calls issued so far, plus 1
    lastSetPath,  \* history: the argument of the most recent updatePath
    applied,      \* history: the result applied since the last updatePath
    appliedId,    \* history: the request that result answered (0 for none)
    afterTrust,   \* history: that request re-validated an unsafe directory
    appliedCount, \* history: results applied since the path last changed
    issuedFor,    \* history: requests issued so far, per requested path
    discarded,    \* history: a response arrived for a path no longer current
    submitted,    \* history: what addRepository saw when it was invoked
    raw,          \* a raw path handed to resolvedPath on its own
    resolutions,  \* what resolvedPath made of it, and of its own result
    reviewProps,  \* PullRequestReview: this.props (the part onSubmit reads)
    switchingToPullRequest, \* PullRequestReview: this.state
    onSubmitPc,   \* PullRequestReview: where onSubmit stands
    calls,        \* PullRequestReview history: the calls made, in order
    dispatched,   \* the calls addRepository has made, in order
    returned,     \* history: handler invocations that returned at once
    isPopoverOpen, \* DiffOptions: this.state
    updates,      \* DiffOptions: setState updaters not yet processed
    clicks,       \* DiffOptions: number of clicks handled so far
    opened,       \* DiffOptions history: calls of props.onDiffOptionsOpened
    transitions,  \* DiffOptions history: isPopoverOpen went false -> true
    batched       \* DiffOptions history: two opening updaters in one batch

vars == <<state, mounted, dismissed, requests, trusts, nextId,
          lastSetPath, applied, appliedId, afterTrust, appliedCount, issuedFor,
          discarded, submitted, raw, resolutions,
          reviewProps, switchingToPullRequest, onSubmitPc, calls,
          dispatched, returned,
          isPopoverOpen, updates, clicks, opened, transitions, batched>>

\* The variables of resolvedPath on its own.
normVars == <<raw, resolutions>>

\* The variables of PullRequestReview.
reviewVars == <<reviewProps, switchingToPullRequest, onSubmitPc, calls>>

\* The variables of DiffOptions.
diffVars == <<isPopoverOpen, updates, clicks, opened, transitions, batched>>

\* The variables AddExistingRepository never touches, and the record of
\* the handler invocations that returned at once.
restVars == <<normVars, reviewVars, diffVars, returned>>

\* The variables every handler but addRepository leaves alone.
otherVars == <<restVars, dispatched>>

history == <<lastSetPath, applied, appliedId, afterTrust, appliedCount,
             issuedFor,
             discarded, submitted>>

\* --------------------------------------------------- the component state
\* The constructor's this.state for a given props.path.
InitialState(path) ==
    [path |-> path,
     isRepository |-> FALSE,
     showNonGitRepositoryWarning |-> FALSE,
     isRepositoryBare |-> FALSE,
     isRepositoryUnsafe |-> FALSE,
     repositoryUnsafePath |-> Undefined,
     isTrustingRepository |-> FALSE]

\* Variant of updatePathState: isRepository is not switched to false.
updatePathState_KeepsIsRepository(st, path) ==
    [st EXCEPT !.path = path]

\* Variant of updatePathState: the warning is hidden as soon as the path
\* changes.
updatePathState_HidesWarning(st, path) ==
    [st EXCEPT !.path = path, !.isRepository = FALSE,
               !.showNonGitRepositoryWarning = FALSE]

\* updatePath's own setState.
updatePathState(st, path) ==
    [st EXCEPT !.path = path, !.isRepository = FALSE]

\* Variant of validatePathEmpty: isRepositoryUnsafe is reset as well.
validatePathEmpty_ResetsUnsafeFlag(st) ==
    [st EXCEPT !.isRepository = FALSE,
               !.isRepositoryBare = FALSE,
               !.showNonGitRepositoryWarning = FALSE,
               !.isRepositoryUnsafe = FALSE]

\* Variant of validatePathEmpty: the bare flag is not cleared.
validatePathEmpty_KeepsBare(st) ==
    [st EXCEPT !.isRepository = FALSE,
               !.showNonGitRepositoryWarning = FALSE]

\* Variant of validatePathEmpty: the warning is not cleared.
validatePathEmpty_KeepsWarning(st) ==
    [st EXCEPT !.isRepository = FALSE,
               !.isRepositoryBare = FALSE]

\* validatePath's setState for the empty path.
validatePathEmpty(st) ==
    [st EXCEPT !.isRepository = FALSE,
               !.isRepositoryBare = FALSE,
               !.showNonGitRepositoryWarning = FALSE]

\* Variant of isCurrentPath: every result is taken for a current one.
isCurrentPath_Always(st, path) == TRUE

\* Whether validatePath's functional setState applies the result.
isCurrentPath(st, path) == path = st.path

\* Variant of applyRepositoryType: a plain setState without the path check.
applyRepositoryType_Unguarded(st, path, type) ==
    [st EXCEPT
        !.isRepository = type.kind # "missing" /\ type.kind # "unsafe",
        !.isRepositoryBare = type.kind = "bare",
        !.isRepositoryUnsafe = type.kind = "unsafe",
        !.showNonGitRepositoryWarning =
            type.kind \in {"missing", "unsafe", "bare"},
        !.repositoryUnsafePath =
            IF type.kind = "unsafe" THEN type.path ELSE Undefined]

\* Variant of applyRepositoryType: the result brings its path along.
applyRepositoryType_SetsPath(st, path, type) ==
    [applyRepositoryType_Unguarded(st, path, type) EXCEPT !.path = path]

\* validatePath's continuation after getRepositoryType has resolved.
applyRepositoryType(st, path, type) ==
    LET isRepository == type.kind # "missing" /\ type.kind # "unsafe"
        isRepositoryUnsafe == type.kind = "unsafe"
        isRepositoryBare == type.kind = "bare"
        showNonGitRepositoryWarning == ~isRepository \/ isRepositoryBare
        repositoryUnsafePath ==
            IF type.kind = "unsafe" THEN type.path ELSE Undefined
    IN  IF isCurrentPath(st, path)
        THEN [st EXCEPT
                !.isRepository = isRepository,
                !.isRepositoryBare = isRepositoryBare,
                !.isRepositoryUnsafe = isRepositoryUnsafe,
                !.showNonGitRepositoryWarning = showNonGitRepositoryWarning,
                !.repositoryUnsafePath = repositoryUnsafePath]
        ELSE st

\* Variant of disabled: a bare repository does not disable the button.
disabled_IgnoresBare(st) ==
    \/ st.path = ""
    \/ ~st.isRepository

\* render's `disabled`, handed to the OK button.
disabled(st) ==
    \/ st.path = ""
    \/ ~st.isRepository
    \/ st.isRepositoryBare

\* Which warning renderWarning returns.
renderWarning(st) ==
    IF st.path = "" \/ ~st.showNonGitRepositoryWarning THEN "null"
    ELSE IF st.isRepositoryBare THEN "bare"
    ELSE IF st.isRepositoryUnsafe /\ st.repositoryUnsafePath # Undefined
         THEN "unsafe"
    ELSE "notRepository"

\* The "add an exception for this directory" link is on screen.
trustLinkRendered(st) == renderWarning(st) = "unsafe"

\* ------------------------------------------------------------------ Init
\* No PullRequestReview dialog is shown.
NoReview ==
    /\ reviewProps = [review |-> "APPROVED", shouldChangeRepository |-> FALSE,
                      shouldCheckoutBranch |-> FALSE]
    /\ switchingToPullRequest = FALSE
    /\ onSubmitPc = "idle"
    /\ calls = <<>>

\* No DiffOptions component is shown.
NoDiffOptions ==
    /\ isPopoverOpen = FALSE
    /\ updates = <<>>
    /\ clicks = 0
    /\ opened = 0
    /\ transitions = 0
    /\ batched = FALSE

Init ==
    /\ \E path \in Paths : state = InitialState(path)
    /\ mounted = FALSE
    /\ dismissed = FALSE
    /\ requests = {}
    /\ trusts = {}
    /\ nextId = 1
    /\ lastSetPath = state.path
    /\ applied = IF state.path = "" THEN NoType ELSE PendingType
    /\ appliedId = 0
    /\ afterTrust = FALSE
    /\ appliedCount = 0
    /\ issuedFor = [p \in Paths |-> 0]
    /\ discarded = FALSE
    /\ submitted = {}
    /\ dispatched = <<>>
    /\ returned = {}
    /\ raw = <<>>
    /\ resolutions = <<>>
    /\ NoReview
    /\ NoDiffOptions

\* --------------------------------------------------------------- helpers
\* A continuation of onTrustDirectory is queued as a microtask: it runs
\* before any other event is handled.
resuming == \E t \in trusts : t.pc = "resume"

\* The component can handle an event.
ready == mounted /\ ~dismissed /\ ~resuming

\* The path validatePath asks getRepositoryType about.
requestedPath(path) == path

\* Variant of revalidatedPath: this.state.path is read after the await.
revalidatedPath_Live(t, st) == st.path

\* The path onTrustDirectory re-validates once addSafeDirectory is done:
\* the `path` it read from this.state before the await.
revalidatedPath(t, st) == t.path

\* Variant of trustedPath: the entered path is trusted.
trustedPath_Entered(st) == st.path

\* The argument onTrustDirectory passes to addSafeDirectory.
trustedPath(st) == st.repositoryUnsafePath

\* Variant of afterValidatePath: validatePath is called without `await`.
afterValidatePath_NotAwaited(path) == "resume"

\* Where onTrustDirectory stands after it has called validatePath(path).
afterValidatePath(path) == IF path = "" THEN "resume" ELSE "validatePath"

\* validatePath(path) up to its first await, called with the pending state
\* st; trust is the onTrustDirectory invocation awaiting it (0 for none).
validatePath(st, path, trust) ==
    IF path = ""
    THEN /\ state' = validatePathEmpty(st)
         /\ UNCHANGED <<requests, nextId, issuedFor>>
    ELSE /\ nextId <= MaxRequests
         /\ state' = st
         /\ requests' = requests \cup
                {[id |-> nextId, path |-> requestedPath(path),
                  live |-> st.path, trust |-> trust]}
         /\ nextId' = nextId + 1
         /\ issuedFor' =
                [issuedFor EXCEPT ![requestedPath(path)] = @ + 1]

\* updatePath(path): setState and validatePath up to its first await.
updatePath(path) ==
    /\ validatePath(updatePathState(state, path), path, 0)
    /\ lastSetPath' = path
    /\ applied' = IF path = "" THEN NoType ELSE PendingType
    /\ appliedId' = 0
    /\ afterTrust' = FALSE
    /\ appliedCount' = IF path = state.path THEN appliedCount ELSE 0
    /\ trusts' = {IF t.pc \in {"addSafeDirectory", "validatePath"}
                  THEN [t EXCEPT !.edited = TRUE] ELSE t : t \in trusts}
    /\ UNCHANGED <<mounted, dismissed, discarded, submitted>>
    /\ UNCHANGED otherVars

\* --------------------------------------------------------------- actions
componentDidMount ==
    /\ ~mounted
    /\ mounted' = TRUE
    /\ IF state.path # ""
       THEN validatePath(state, state.path, 0)
       ELSE UNCHANGED <<state, requests, nextId, issuedFor>>
    /\ UNCHANGED <<dismissed, trusts, lastSetPath, applied, appliedId,
                   afterTrust, appliedCount, discarded, submitted>>
    /\ UNCHANGED otherVars

\* Variant of pathChanged: every edit counts as a change.
pathChanged_Always(st, path) == TRUE

\* onPathChanged's condition.
pathChanged(st, path) == st.path # path

\* The user edits the text box.
onPathChanged(path) ==
    /\ ready
    /\ pathChanged(state, path)
    /\ updatePath(path)

\* The user's edit leaves the text as it is: onPathChanged returns at once.
onPathChangedReturns(path) ==
    /\ ready
    /\ ~pathChanged(state, path)
    /\ returned' = returned \cup
           {[handler |-> "onPathChanged", isRepository |-> state.isRepository]}
    /\ UNCHANGED <<state, mounted, dismissed, requests, trusts, nextId,
                   history, dispatched>>
    /\ UNCHANGED <<normVars, reviewVars, diffVars>>

\* The user presses the choose button; path is showOpenDialog's result.
showFilePicker(path) ==
    /\ ready
    /\ IF path = Null THEN UNCHANGED vars ELSE updatePath(path)

\* The user closes the file picker without a choice: showOpenDialog gives
\* null and showFilePicker returns at once.
showFilePickerReturns ==
    /\ ready
    /\ returned' = returned \cup
           {[handler |-> "showFilePicker", isRepository |-> state.isRepository]}
    /\ UNCHANGED <<state, mounted, dismissed, requests, trusts, nextId,
                   history, dispatched>>
    /\ UNCHANGED <<normVars, reviewVars, diffVars>>

\* An invocation of onTrustDirectory whose awaits have settled: what it
\* remembers of the click is of no use any more.
settled(t, pc) == [t EXCEPT !.pc = pc, !.unsafe = FALSE, !.edited = FALSE]

\* getRepositoryType resolves with type for the request r.
getRepositoryTypeResolves(r, type) ==
    /\ ready
    /\ r \in requests
    /\ state' = applyRepositoryType(state, r.path, type)
    /\ requests' = requests \ {r}
    /\ trusts' = {IF t.id = r.trust THEN settled(t, "resume") ELSE t :
                    t \in trusts}
    /\ applied' = IF r.path = state.path THEN type ELSE applied
    /\ appliedId' = IF r.path = state.path THEN r.id ELSE appliedId
    /\ afterTrust' = IF r.path = state.path
                     THEN \E t \in trusts :
                              t.id = r.trust /\ t.unsafe /\ ~t.edited
                     ELSE afterTrust
    /\ appliedCount' = IF isCurrentPath(state, r.path)
                       THEN appliedCount + 1 ELSE appliedCount
    /\ discarded' = (discarded \/ r.path # state.path)
    /\ UNCHANGED <<mounted, dismissed, nextId, lastSetPath, issuedFor,
                   submitted>>
    /\ UNCHANGED otherVars

\* The user clicks the link that adds an exception for the directory.
onTrustDirectory ==
    /\ ready
    /\ trustLinkRendered(state)
    /\ Cardinality(trusts) < MaxTrusts
    /\ LET st == [state EXCEPT !.isTrustingRepository = TRUE]
           repositoryUnsafePath == trustedPath(state)
           path == state.path
           t == [id |-> Cardinality(trusts) + 1,
                 repositoryUnsafePath |-> repositoryUnsafePath,
                 path |-> path,
                 owner |-> state.repositoryUnsafePath,
                 unsafe |-> applied.kind = "unsafe",
                 edited |-> FALSE,
                 calls |-> <<>>,
                 revalidations |-> 0,
                 pc |-> "addSafeDirectory"]
       IN  IF repositoryUnsafePath # Undefined /\ repositoryUnsafePath # ""
           THEN /\ state' = st
                /\ trusts' = trusts \cup
                       {[t EXCEPT !.calls = <<repositoryUnsafePath>>]}
                /\ UNCHANGED <<requests, nextId, issuedFor>>
           ELSE /\ validatePath(st, path, t.id)
                /\ trusts' = trusts \cup
                       {IF path = ""
                        THEN settled([t EXCEPT !.revalidations = 1],
                                     afterValidatePath(path))
                        ELSE [t EXCEPT !.revalidations = 1,
                                       !.pc = afterValidatePath(path)]}
    /\ UNCHANGED <<mounted, dismissed, history>>
    /\ UNCHANGED otherVars

\* addSafeDirectory resolves: onTrustDirectory goes on to validatePath.
addSafeDirectoryResolves(t) ==
    /\ ready
    /\ t \in trusts
    /\ t.pc = "addSafeDirectory"
    /\ validatePath(state, revalidatedPath(t, state), t.id)
    /\ LET path == revalidatedPath(t, state)
           u == [t EXCEPT !.revalidations = @ + 1]
       IN  trusts' = (trusts \ {t}) \cup
               {IF path = "" THEN settled(u, afterValidatePath(path))
                             ELSE [u EXCEPT !.pc = afterValidatePath(path)]}
    /\ UNCHANGED <<mounted, dismissed, lastSetPath, applied, appliedId,
                   afterTrust, appliedCount, discarded, submitted>>
    /\ UNCHANGED otherVars

\* addSafeDirectory rejects: onTrustDirectory ends with the rejection.
addSafeDirectoryRejects(t) ==
    /\ ready
    /\ t \in trusts
    /\ t.pc = "addSafeDirectory"
    /\ trusts' = (trusts \ {t}) \cup {settled(t, "rejected")}
    /\ UNCHANGED <<state, mounted, dismissed, requests, nextId, history>>
    /\ UNCHANGED otherVars

\* onTrustDirectory's last statement, once validatePath has settled.
onTrustDirectoryResumes(t) ==
    /\ mounted /\ ~dismissed
    /\ t \in trusts
    /\ t.pc = "resume"
    /\ state' = [state EXCEPT !.isTrustingRepository = FALSE]
    /\ trusts' = (trusts \ {t}) \cup {[t EXCEPT !.pc = "done"]}
    /\ UNCHANGED <<mounted, dismissed, requests, nextId, history>>
    /\ UNCHANGED otherVars

\* The dialog submits its form only through an enabled OK button.
okButtonSubmits(st) == ~disabled(st)

\* A call made by addRepository, with the path it is about and, for the
\* result of addRepositories, the number of repositories in it.
callOf(name, path, count) == [call |-> name, path |-> path, count |-> count]

\* Variant of repositoriesAdded: an empty result counts as well.
repositoriesAdded_Always(count) == TRUE

\* addRepository's condition on the result of addRepositories.
repositoriesAdded(count) == count > 0

\* The dialog's onSubmit, up to its await.
addRepository ==
    /\ ready
    /\ okButtonSubmits(state)
    /\ dismissed' = TRUE
    /\ submitted' = submitted \cup {[path |-> state.path, applied |-> applied,
                                     disabled |-> disabled(state)]}
    /\ dispatched' = <<callOf("onDismissed", <<>>, 0),
                       callOf("addRepositories",
                            resolvedPath(chars(state.path)), 0)>>
    /\ UNCHANGED <<state, mounted, requests, trusts, nextId, lastSetPath,
                   applied, appliedId, afterTrust, appliedCount, issuedFor,
                   discarded>>
    /\ UNCHANGED restVars

\* dispatcher.addRepositories resolves with count repositories, the first
\* of them at the path it was given: addRepository runs to its end.
addRepositoriesResolves(count) ==
    /\ Len(dispatched) = 2
    /\ LET path == dispatched[2].path
           repository == IF count > 0 THEN path ELSE <<>>
       IN  dispatched' = dispatched
               \o <<callOf("addRepositories.resolved", repository, count)>>
               \o (IF repositoriesAdded(count)
                   THEN <<callOf("closeFoldout", <<>>, 0),
                          callOf("selectRepository", repository, 0),
                          callOf("recordAddExistingRepository", <<>>, 0)>>
                   ELSE <<>>)
    /\ UNCHANGED <<state, mounted, dismissed, requests, trusts, nextId,
                   history>>
    /\ UNCHANGED restVars

\* The user cancels the dialog.
onDismissed ==
    /\ ready
    /\ dismissed' = TRUE
    /\ UNCHANGED <<state, mounted, requests, trusts, nextId, history>>
    /\ UNCHANGED otherVars

Next ==
    \/ componentDidMount
    \/ \E path \in Paths : onPathChanged(path)
    \/ \E path \in (Paths \ {""}) \cup {Null} : showFilePicker(path)
    \/ \E r \in requests, type \in RepositoryTypes :
           getRepositoryTypeResolves(r, type)
    \/ onTrustDirectory
    \/ \E t \in trusts : addSafeDirectoryResolves(t)
    \/ \E t \in trusts : addSafeDirectoryRejects(t)
    \/ \E t \in trusts : onTrustDirectoryResumes(t)
    \/ addRepository
    \/ onDismissed

\* The dialog up to the moment it is closed.
Spec == Init /\ [][Next]_vars

\* ------------------------------------------------- the form on its own
\* The text box, the file picker, the classifier and the OK button, without
\* the trust link: the invocations that return at once are on record, and
\* addRepository is followed past its await.
FormNext ==
    \/ componentDidMount
    \/ \E path \in Paths : onPathChanged(path)
    \/ \E path \in Paths : onPathChangedReturns(path)
    \/ \E path \in Paths \ {""} : showFilePicker(path)
    \/ showFilePickerReturns
    \/ \E r \in requests, type \in RepositoryTypes :
           getRepositoryTypeResolves(r, type)
    \/ addRepository
    \/ \E count \in 0..1 : addRepositoriesResolves(count)

FormSpec == Init /\ [][FormNext]_vars

\* ------------------------------------------------- resolvedPath on its own
\* The variables of the component.
componentVars == <<state, mounted, dismissed, requests, trusts, nextId,
                   history, dispatched, returned>>

\* A raw path is given; the component is not involved.
\* No AddExistingRepository dialog is shown.
NoComponent ==
    /\ state = InitialState("")
    /\ mounted = FALSE
    /\ dismissed = FALSE
    /\ requests = {}
    /\ trusts = {}
    /\ nextId = 1
    /\ lastSetPath = ""
    /\ applied = NoType
    /\ appliedId = 0
    /\ afterTrust = FALSE
    /\ appliedCount = 0
    /\ issuedFor = [p \in Paths |-> 0]
    /\ discarded = FALSE
    /\ submitted = {}
    /\ dispatched = <<>>
    /\ returned = {}

NormInit ==
    /\ raw \in RawPaths(MaxPathLen)
    /\ resolutions = <<>>
    /\ NoComponent
    /\ NoReview
    /\ NoDiffOptions

\* resolvedPath is applied to the raw path.
resolvePath ==
    /\ Len(resolutions) = 0
    /\ resolutions' = <<resolvedPath(raw)>>
    /\ UNCHANGED <<raw, componentVars, reviewVars, diffVars>>

\* resolvedPath is applied to its own result.
resolveAgain ==
    /\ Len(resolutions) = 1
    /\ resolutions' = Append(resolutions, resolvedPath(resolutions[1]))
    /\ UNCHANGED <<raw, componentVars, reviewVars, diffVars>>

NormNext ==
    \/ resolvePath
    \/ resolveAgain

NormSpec == NormInit /\ [][NormNext]_vars

\* ---------------------------------------------- PullRequestReview.onSubmit
\* The states of a pull request review.
ReviewStates == {"APPROVED", "CHANGES_REQUESTED", "COMMENTED"}

\* The props onSubmit reads.
ReviewProps ==
    [review : ReviewStates, shouldChangeRepository : BOOLEAN,
     shouldCheckoutBranch : BOOLEAN]

\* onSubmit's condition, with the review state left out.
needsSwitch_IgnoresReviewState(props) ==
    props.shouldChangeRepository \/ props.shouldCheckoutBranch

\* onSubmit's condition for switching to the pull request.
needsSwitch(props) ==
    /\ props.review # "APPROVED"
    /\ (props.shouldChangeRepository \/ props.shouldCheckoutBranch)

\* props.onDismissed has been called: the dialog is closed.
reviewClosed ==
    \E i \in 1..Len(calls) : calls[i] \in {"onDismissed", "onCancelButtonClick"}

\* The dialog is shown with some props.
ReviewInit ==
    /\ reviewProps \in ReviewProps
    /\ switchingToPullRequest = FALSE
    /\ onSubmitPc = "idle"
    /\ calls = <<>>
    /\ NoComponent
    /\ NoDiffOptions
    /\ raw = <<>>
    /\ resolutions = <<>>

\* The user clicks the OK button: onSubmit up to its first await, or to its
\* end when there is nothing to switch to.
onSubmit ==
    /\ onSubmitPc = "idle"
    /\ ~reviewClosed
    /\ IF needsSwitch(reviewProps)
       THEN /\ switchingToPullRequest' = TRUE
            /\ calls' = Append(calls, "selectRepository")
            /\ onSubmitPc' = "selectRepository"
       ELSE /\ calls' = Append(calls, "onDismissed")
            /\ onSubmitPc' = "done"
            /\ UNCHANGED switchingToPullRequest
    /\ UNCHANGED <<reviewProps, componentVars, normVars, diffVars>>

\* dispatcher.selectRepository resolves: onSubmit calls checkoutPullRequest.
selectRepositoryResolves ==
    /\ onSubmitPc = "selectRepository"
    /\ calls' = calls \o <<"selectRepository.resolved", "checkoutPullRequest">>
    /\ onSubmitPc' = "checkoutPullRequest"
    /\ UNCHANGED <<reviewProps, switchingToPullRequest, componentVars,
                   normVars, diffVars>>

\* dispatcher.selectRepository rejects: onSubmit ends with the rejection.
selectRepositoryRejects ==
    /\ onSubmitPc = "selectRepository"
    /\ calls' = Append(calls, "selectRepository.rejected")
    /\ onSubmitPc' = "rejected"
    /\ UNCHANGED <<reviewProps, switchingToPullRequest, componentVars,
                   normVars, diffVars>>

\* dispatcher.checkoutPullRequest resolves: onSubmit runs to its end.
checkoutPullRequestResolves ==
    /\ onSubmitPc = "checkoutPullRequest"
    /\ switchingToPullRequest' = FALSE
    /\ calls' = calls \o
           <<"checkoutPullRequest.resolved",
             "recordPullRequestReviewDialogSwitchToPullRequest",
             "onDismissed">>
    /\ onSubmitPc' = "done"
    /\ UNCHANGED <<reviewProps, componentVars, normVars, diffVars>>

\* dispatcher.checkoutPullRequest rejects: onSubmit ends with the rejection.
checkoutPullRequestRejects ==
    /\ onSubmitPc = "checkoutPullRequest"
    /\ calls' = Append(calls, "checkoutPullRequest.rejected")
    /\ onSubmitPc' = "rejected"
    /\ UNCHANGED <<reviewProps, switchingToPullRequest, componentVars,
                   normVars, diffVars>>

\* The user clicks the cancel button, which calls props.onDismissed.
onCancelButtonClick ==
    /\ ~reviewClosed
    /\ calls' = Append(calls, "onCancelButtonClick")
    /\ UNCHANGED <<reviewProps, switchingToPullRequest, onSubmitPc,
                   componentVars, normVars, diffVars>>

ReviewNext ==
    \/ onSubmit
    \/ selectRepositoryResolves
    \/ selectRepositoryRejects
    \/ checkoutPullRequestResolves
    \/ checkoutPullRequestRejects
    \/ onCancelButtonClick

ReviewSpec == ReviewInit /\ [][ReviewNext]_vars

\* ------------------------------------------------------------ DiffOptions
\* openPopover's updater with the call outside its condition.
openPopoverUpdater_AlwaysCalls(prevState) ==
    [isPopoverOpen |-> TRUE, called |-> 1]

\* The updater openPopover hands to setState: the next state, and the
\* number of calls of props.onDiffOptionsOpened it makes.
openPopoverUpdater(prevState) ==
    IF ~prevState
    THEN [isPopoverOpen |-> TRUE, called |-> 1]
    ELSE [isPopoverOpen |-> prevState, called |-> 0]

\* The updater closePopover hands to setState.
closePopoverUpdater(prevState) ==
    IF prevState
    THEN [isPopoverOpen |-> FALSE, called |-> 0]
    ELSE [isPopoverOpen |-> prevState, called |-> 0]

\* The queued updaters run in order, each on the result of the one before.
RECURSIVE processUpdates(_, _)
processUpdates(prevState, queue) ==
    IF queue = <<>>
    THEN [isPopoverOpen |-> prevState, called |-> 0]
    ELSE LET r == IF Head(queue) = "openPopover"
                  THEN openPopoverUpdater(prevState)
                  ELSE closePopoverUpdater(prevState)
             rest == processUpdates(r.isPopoverOpen, Tail(queue))
         IN  [isPopoverOpen |-> rest.isPopoverOpen,
              called |-> r.called + rest.called]

\* The component is shown.
DiffInit ==
    /\ NoDiffOptions
    /\ NoComponent
    /\ NoReview
    /\ raw = <<>>
    /\ resolutions = <<>>

\* The user clicks the button; this.state is what was last rendered.
onButtonClick ==
    /\ clicks < MaxClicks
    /\ clicks' = clicks + 1
    /\ updates' = Append(updates, IF isPopoverOpen THEN "closePopover"
                                                   ELSE "openPopover")
    /\ UNCHANGED <<isPopoverOpen, opened, transitions, batched>>
    /\ UNCHANGED <<componentVars, normVars, reviewVars>>

\* The user clicks outside the popover, which is rendered when open.
onClickOutside ==
    /\ isPopoverOpen
    /\ clicks < MaxClicks
    /\ clicks' = clicks + 1
    /\ updates' = Append(updates, "closePopover")
    /\ UNCHANGED <<isPopoverOpen, opened, transitions, batched>>
    /\ UNCHANGED <<componentVars, normVars, reviewVars>>

\* React processes the queued state updates and renders.
processUpdateQueue ==
    /\ updates # <<>>
    /\ LET r == processUpdates(isPopoverOpen, updates)
       IN  /\ isPopoverOpen' = r.isPopoverOpen
           /\ opened' = opened + r.called
           /\ transitions' = IF ~isPopoverOpen /\ r.isPopoverOpen
                             THEN transitions + 1 ELSE transitions
    /\ batched' = (batched \/ (Len(updates) > 1 /\ updates[1] = "openPopover"
                                /\ updates[2] = "openPopover"))
    /\ updates' = <<>>
    /\ UNCHANGED clicks
    /\ UNCHANGED <<componentVars, normVars, reviewVars>>

DiffNext ==
    \/ onButtonClick
    \/ onClickOutside
    \/ processUpdateQueue

DiffSpec == DiffInit /\ [][DiffNext]_vars

\* -------------------------------------------------- the fair specification
\* Every request is answered in the end, and a continuation that is ready to
\* run does run.
FairSpec ==
    /\ Spec
    /\ WF_vars(componentDidMount)
    /\ WF_vars(\E r \in requests, type \in RepositoryTypes :
                   getRepositoryTypeResolves(r, type))
    /\ WF_vars(\E t \in trusts : onTrustDirectoryResumes(t))

\* addSafeDirectory settles in the end as well, one way or the other.
TrustFairSpec ==
    /\ FairSpec
    /\ WF_vars(\E t \in trusts :
                   addSafeDirectoryResolves(t) \/ addSafeDirectoryRejects(t))

\* ------------------------------------------------------------ type check
TypeOK ==
    /\ state.path \in Paths
    /\ state.repositoryUnsafePath \in OwnerPaths \cup {Undefined}
    /\ nextId \in 1..(MaxRequests + 1)
    /\ \A r \in requests : r.path \in Paths \ {""}
    /\ Cardinality(trusts) <= MaxTrusts

\* ---------------------------------------------------------------- claims
\* The fields of the state that hold the classification.
classificationOf(st) ==
    <<st.isRepository, st.showNonGitRepositoryWarning, st.isRepositoryBare,
      st.isRepositoryUnsafe, st.repositoryUnsafePath>>

\* The fields of the state that decide which warning is rendered.
warningOf(st) ==
    <<st.showNonGitRepositoryWarning, st.isRepositoryBare,
      st.isRepositoryUnsafe, st.repositoryUnsafePath>>

\* C1: a response of the classifier for a path that is not the current path
\* at the moment it arrives leaves every field of the state unchanged; only a
\* response for the current path can change the classification.
C1_StaleResponseDiscarded ==
    [][\A r \in requests, type \in RepositoryTypes :
          getRepositoryTypeResolves(r, type) =>
              /\ r.path # state.path => state' = state
              /\ classificationOf(state') # classificationOf(state) =>
                     r.path = state.path]_vars

\* A response arrived for a superseded path while another request was
\* outstanding.
C1_Witness == discarded /\ requests # {} /\ state.path # ""

\* C2: the path of the state is the argument of the most recent updatePath
\* (the constructor's path before the first one); responses and trust
\* completions never change it.
C2_PathIsLastSet == state.path = lastSetPath

\* A path was set, a stale response arrived, a result was applied and a trust
\* action has run to its end.
C2_Witness ==
    /\ discarded
    /\ appliedCount > 0
    /\ \E t \in trusts : t.pc = "done"

\* C3: the add button is enabled exactly when the path is not empty and the
\* result applied for the current path is a regular (valid) repository.
C3_CanSubmitIffValid ==
    ~disabled(state) <=> (state.path # "" /\ applied.kind = "regular")

\* The add button is enabled after a result was applied for a non-empty
\* path.
C3_Witness == ~disabled(state) /\ state.path # "" /\ appliedCount > 0

\* C4 as stated: the re-validation of a trust action is requested for the
\* path that is current when addSafeDirectory completes.
C4_RevalidatesLivePath ==
    \A r \in requests : r.trust # 0 => r.path = r.live

\* C4 amended: the re-validation of a trust action is requested for the path
\* that onTrustDirectory read when it started, also when the path has changed
\* while addSafeDirectory was in flight.
C4_RevalidatesCapturedPath ==
    \A r \in requests : r.trust # 0 =>
        \E t \in trusts : t.id = r.trust /\ r.path = t.path

\* A re-validation was requested for a path that was no longer current.
C4_Witness == \E r \in requests : r.trust # 0 /\ r.path # r.live

\* C5: a trust action started on an unsafe classification calls
\* addSafeDirectory exactly once, with the owner path of the classification,
\* and requests exactly one re-validation, not before addSafeDirectory has
\* completed.
C5_OneTrustThenOneRevalidation ==
    \A t \in trusts : t.owner # Undefined =>
        /\ Len(t.calls) = 1
        /\ t.calls[1] = t.owner
        /\ t.pc \in {"addSafeDirectory", "rejected"} => t.revalidations = 0
        /\ t.pc \in {"validatePath", "resume", "done"} =>
               t.revalidations = 1

\* A trust action has run to its end for an owner path that differs from the
\* entered path.
C5_Witness ==
    \E t \in trusts : t.pc = "done" /\ t.owner # t.path /\ t.owner # Undefined

\* C6: when addSafeDirectory fails, the classification is unchanged and
\* isTrustingRepository is false again.
C6_FailedTrustResetsIsTrusting ==
    [][\A t \in trusts :
          addSafeDirectoryRejects(t) =>
              /\ classificationOf(state') = classificationOf(state)
              /\ ~state'.isTrustingRepository]_vars

\* C7 as stated: at most one result is applied between two changes of the
\* path.
C7_AtMostOneApplied == appliedCount <= 1

\* C7 amended: between two changes of the path no more results are applied
\* than requests were issued for the current path; each request's result is
\* applied at most once, and only while its path is the current path.
C7_AppliedAtMostIssued == appliedCount <= issuedFor[state.path]

\* Two results were applied without the path changing in between.
C7_Witness == appliedCount >= 2

\* C8: addRepository is only invoked when the path is not empty and the
\* result applied for that path is a regular (valid) repository.
C8_SubmitOnlyWhenValid ==
    \A s \in submitted :
        /\ ~s.disabled
        /\ s.path # ""
        /\ s.applied.kind = "regular"

\* addRepository has been invoked.
C8_Witness == submitted # {} /\ dismissed

\* C9 as stated: as long as no result has been applied since the last
\* updatePath, no warning of the previous path is rendered and the button is
\* disabled.
C9_NothingReportedWhilePending ==
    applied.kind \in {"pending", "none"} =>
        renderWarning(state) = "null" /\ disabled(state)

\* C9 amended: updatePath(p) sets isRepository to false; for the empty path
\* it also clears the bare flag and the warning; for any other path the
\* warning fields of the previous path (not a repository, bare, unsafe with
\* its owner path) are kept as they are until a result for p is applied.
C9_UpdatePathKeepsWarning ==
    [][/\ \A p \in Paths :
            updatePath(p) =>
                /\ state'.path = p
                /\ ~state'.isRepository
                /\ p = "" => /\ ~state'.showNonGitRepositoryWarning
                             /\ ~state'.isRepositoryBare
                /\ p # "" => warningOf(state') = warningOf(state)
       /\ (applied.kind = "pending" /\ applied'.kind = "pending") =>
              /\ warningOf(state') = warningOf(state)
              /\ ~state'.isRepository]_vars

\* A warning of the previous path is on screen while the current path is
\* pending.
C9_Witness ==
    /\ applied.kind = "pending"
    /\ renderWarning(state) # "null"
    /\ lastSetPath = state.path
    /\ nextId > 2

\* C10: the link that starts the trust action is rendered only when the
\* result applied for the current path is unsafe.
C10_TrustOnlyWhenUnsafe ==
    trustLinkRendered(state) => applied.kind = "unsafe"

\* C11 as stated: isTrustingRepository is false as soon as the re-validation
\* request of a trust action has been issued.
C11_ResetWhenRevalidationIssued ==
    [][\A t \in trusts :
          addSafeDirectoryResolves(t) => ~state'.isTrustingRepository]_vars

\* C11 amended: issuing the re-validation request leaves isTrustingRepository
\* as it is; it only goes from true to false in the continuation of a trust
\* action whose re-validation has been answered.
C11_ResetAfterRevalidationAnswered ==
    [][/\ \A t \in trusts :
            addSafeDirectoryResolves(t) =>
                state'.isTrustingRepository = state.isTrustingRepository
       /\ (state.isTrustingRepository /\ ~state'.isTrustingRepository) =>
              \E t \in trusts :
                  /\ t.pc = "resume"
                  /\ t.revalidations = 1
                  /\ \A r \in requests : r.trust # t.id]_vars

\* The re-validation of the only trust action is outstanding and
\* isTrustingRepository is still true.
C11_Witness ==
    /\ state.isTrustingRepository
    /\ Cardinality(trusts) = 1
    /\ \E r \in requests : r.trust # 0

\* C12: while isTrustingRepository is true the link that starts the trust
\* action is not available.
C12_NoTrustWhileTrusting ==
    state.isTrustingRepository => ~trustLinkRendered(state)

\* C13: once the add button is enabled after a trust action on the unsafe
\* classification of the current path, with no updatePath since, it stays
\* enabled when a further response arrives, provided the re-validations
\* (the requests issued after addSafeDirectory completed) are answered with a
\* regular repository; requests issued earlier may be answered with anything.
C13_StaysSubmittableAfterTrust ==
    [][\A r \in requests, type \in RepositoryTypes :
          ( /\ afterTrust
            /\ applied.kind = "regular"
            /\ ~disabled(state)
            /\ getRepositoryTypeResolves(r, type)
            /\ (r.id >= appliedId => type.kind = "regular") )
          => ~disabled(state')]_vars

\* What the state holds once type has been applied.
reflects(st, type) ==
    /\ st.isRepository = (type.kind \in {"bare", "regular"})
    /\ st.isRepositoryBare = (type.kind = "bare")
    /\ st.isRepositoryUnsafe = (type.kind = "unsafe")
    /\ st.showNonGitRepositoryWarning =
           (type.kind \in {"missing", "unsafe", "bare"})
    /\ st.repositoryUnsafePath = type.path

\* C14: when the classifier answers every request, then from some point on,
\* unless the dialog is dismissed or the path is left empty, the
\* classification is not pending any more: the state holds a result the
\* classifier gave for the current path, and the add button is enabled when
\* that result is a regular repository.
C14_EventuallyClassified ==
    <>[](\/ dismissed
         \/ state.path = ""
         \/ /\ applied \in RepositoryTypes
            /\ reflects(state, applied)
            /\ applied.kind = "regular" => ~disabled(state))

\* Every request has been answered, one of them for a path that was no
\* longer current, and the current path is classified regular.
C14_Witness ==
    /\ mounted /\ requests = {} /\ state.path # ""
    /\ discarded
    /\ applied.kind = "regular" /\ ~disabled(state)

\* C15: as long as no result has been applied since the last updatePath,
\* isRepository is false and the add button is disabled.
C15_NotSubmittableWhilePending ==
    applied.kind \in {"pending", "none"} =>
        ~state.isRepository /\ disabled(state)

\* The path was changed after a result had arrived, and the request for the
\* new path is outstanding.
C15_Witness ==
    /\ applied.kind = "pending"
    /\ nextId > 2
    /\ Cardinality(requests) < nextId - 1
    /\ \E r \in requests : r.path = state.path /\ r.trust = 0

C17_ResolvedPathIdempotent ==
    Len(resolutions) = 2 => resolutions[2] = resolutions[1]

\* resolvedPath was applied twice to a raw path that starts with the home
\* shorthand and is not its own resolution.
C17_Witness ==
    /\ Len(resolutions) = 2
    /\ raw # <<>> /\ raw[1] = "~"
    /\ resolutions[1] # raw
    /\ resolutions[1][1] = "/"

\* C18: a response only changes the classification when its request was
\* issued after the request whose result is applied at that moment.
C18_OlderNeverOverwritesNewer ==
    [][\A r \in requests, type \in RepositoryTypes :
          ( /\ getRepositoryTypeResolves(r, type)
            /\ classificationOf(state') # classificationOf(state) )
          => r.id > appliedId]_vars

\* C19: every outstanding request asks about the resolved form of the path
\* it was issued for, and the path addRepository registers, the resolved
\* current path, is the path that was classified.
C19_RequestsAreForResolvedPath ==
    /\ \A r \in requests :
           chars(r.path) =
               resolvedPath(chars(IF r.trust = 0 THEN r.live ELSE r.path))
    /\ \A s \in submitted : resolvedPath(chars(s.path)) = chars(s.path)

positions(call) == {i \in 1..Len(calls) : calls[i] = call}

\* C21: PullRequestReview.onSubmit calls selectRepository and
\* checkoutPullRequest only when the review is not APPROVED and
\* shouldChangeRepository or shouldCheckoutBranch is set; then
\* checkoutPullRequest starts only after selectRepository has resolved and
\* the switch is recorded only after checkoutPullRequest has resolved; for an
\* APPROVED review, none of the three is called.
C21_SwitchOnlyWhenNeededAndInOrder ==
    /\ (\/ reviewProps.review = "APPROVED"
        \/ (~reviewProps.shouldChangeRepository
              /\ ~reviewProps.shouldCheckoutBranch))
       => /\ positions("selectRepository") = {}
          /\ positions("checkoutPullRequest") = {}
          /\ positions("recordPullRequestReviewDialogSwitchToPullRequest")
                 = {}
    /\ \A i \in positions("checkoutPullRequest") :
           \E j \in positions("selectRepository.resolved") : j < i
    /\ \A i \in positions("recordPullRequestReviewDialogSwitchToPullRequest") :
           \E j \in positions("checkoutPullRequest.resolved") : j < i
    /\ \A i \in positions("selectRepository.resolved") :
           \E j \in positions("selectRepository") : j < i

\* The switch was made and recorded.
C21_Witness ==
    /\ onSubmitPc = "done"
    /\ positions("recordPullRequestReviewDialogSwitchToPullRequest") # {}

\* C27: switchingToPullRequest is true exactly from the start of
\* selectRepository to the end of checkoutPullRequest, and every invocation
\* of onSubmit that has ended has called onDismissed exactly once, with
\* switchingToPullRequest false, also when one of the two calls failed.
C27_OnSubmitAlwaysDismisses ==
    /\ switchingToPullRequest
           <=> onSubmitPc \in {"selectRepository", "checkoutPullRequest"}
    /\ onSubmitPc \in {"done", "rejected"}
           => /\ Cardinality(positions("onDismissed")) = 1
              /\ ~switchingToPullRequest

\* C22: props.onDiffOptionsOpened has been called exactly once for each
\* change of isPopoverOpen from false to true, and never otherwise, also
\* when several clicks are handled before the first one's state update is
\* processed.
C22_OpenedOncePerOpening == opened = transitions

\* Two opening clicks were processed in one batch, and the popover opened.
C22_Witness == batched /\ opened > 0 /\ isPopoverOpen

\* C23: in every reachable state of AddExistingRepository,
\* isRepositoryUnsafe is true exactly when repositoryUnsafePath is defined,
\* and isRepository and isRepositoryUnsafe are never both true.
C23_UnsafeFlagMatchesUnsafePath ==
    /\ state.isRepositoryUnsafe <=> state.repositoryUnsafePath # Undefined
    /\ ~(state.isRepository /\ state.isRepositoryUnsafe)

\* An unsafe result was applied and the path was emptied afterwards: both
\* fields are still set.
C23_Witness ==
    /\ state.isRepositoryUnsafe
    /\ state.repositoryUnsafePath # Undefined
    /\ state.path = ""
    /\ mounted

\* An invocation of onTrustDirectory that has not run to its end.
inProgress(t) == t.pc \in {"addSafeDirectory", "validatePath", "resume"}

\* C24: when addSafeDirectory and every getRepositoryType call settle in the
\* end, isTrustingRepository returns to false after every click on the
\* trust link, and it is false only when no invocation of onTrustDirectory
\* is in progress.
C24_TrustTerminates ==
    /\ [](state.isTrustingRepository
             => <>(~state.isTrustingRepository \/ dismissed))
    /\ [](~state.isTrustingRepository
             => \A t \in trusts : ~inProgress(t))

\* C25: a typed edit whose value equals the current path changes no field
\* of the state and issues no request, so a classification that was applied
\* (Valid included) is kept; the same holds when the file picker is
\* cancelled.
C25_UnchangedPathIsNoOp ==
    [][/\ \A path \in Paths :
            (path = state.path
               /\ (onPathChanged(path) \/ onPathChangedReturns(path)))
            => UNCHANGED <<state, requests, nextId, lastSetPath, applied,
                           appliedId, appliedCount, issuedFor>>
       /\ (showFilePickerReturns \/ (ready /\ showFilePicker(Null)))
            => UNCHANGED <<state, requests, nextId, lastSetPath, applied,
                           appliedId, appliedCount, issuedFor>>]_vars

\* Both handlers returned at once while a valid repository was shown, and
\* it is still shown.
C25_Witness ==
    /\ [handler |-> "onPathChanged", isRepository |-> TRUE] \in returned
    /\ [handler |-> "showFilePicker", isRepository |-> TRUE] \in returned
    /\ state.isRepository
    /\ applied.kind = "regular"

\* The positions of a call in the record of addRepository's calls.
dispatchedAt(name) ==
    {i \in 1..Len(dispatched) : dispatched[i].call = name}

\* C26: addRepository calls onDismissed first, then addRepositories with the
\* resolved form of the path that was current when it was invoked;
\* closeFoldout, selectRepository (of the first repository returned) and
\* recordAddExistingRepository come only after addRepositories has resolved
\* with a non-empty list, and none of them comes when the list is empty.
C26_AddRepositoryOrder ==
    /\ dispatched # <<>>
         => /\ dispatched[1].call = "onDismissed"
            /\ dispatched[2].call = "addRepositories"
            /\ \E s \in submitted :
                   dispatched[2].path = resolvedPath(chars(s.path))
    /\ \A i \in dispatchedAt("closeFoldout")
                \cup dispatchedAt("selectRepository")
                \cup dispatchedAt("recordAddExistingRepository") :
           \E j \in dispatchedAt("addRepositories.resolved") :
               j < i /\ dispatched[j].count > 0
    /\ \A i \in dispatchedAt("selectRepository") :
           \E j \in dispatchedAt("addRepositories.resolved") :
               dispatched[i].path = dispatched[j].path
    /\ \A j \in dispatchedAt("addRepositories.resolved") :
           IF dispatched[j].count > 0
           THEN /\ dispatchedAt("closeFoldout") = {j + 1}
                /\ dispatchedAt("selectRepository") = {j + 2}
                /\ dispatchedAt("recordAddExistingRepository") = {j + 3}
           ELSE Len(dispatched) = j

\* addRepositories resolved with a repository for a path that resolvedPath
\* changed, and the three calls followed.
C26_Witness ==
    /\ Len(dispatched) = 6
    /\ state.path = "~"
    /\ dispatched[2].path = Home

====
